---- MODULE Spec2Model ----
(***************************************************************************)
(* hls-fragment-cleaner (src/main.rs): a periodic task that walks HLS_DIR  *)
(* and removes .ts fragments that are either below the smallest sequence   *)
(* number referenced by their playlist, or have no playlist and were last  *)
(* accessed more than 30 minutes ago.                                      *)
(*                                                                         *)
(* File names, stems and playlist URIs are sequences of one-character      *)
(* strings, so that splitting and number parsing are computed as the code  *)
(* computes them.                                                          *)
(***************************************************************************)
EXTENDS Integers, Sequences, FiniteSets, TLC

VARIABLES
    env,               \* value of HLS_CLEANUP: "unset", "off" or another value
    pc,                \* position of run / clean_task
    files,             \* names of the regular *.ts files present in HLS_DIR
    plist,             \* playlist file name -> its state and content
    atime,             \* .ts file name -> last access time (seconds)
    now,               \* wall clock (seconds)
    current_time,      \* clean_task's current_time, captured once per cycle
    ticks,             \* number of interval ticks that have fired
    visited,           \* entries the directory walk has yielded in this cycle
    cur,               \* candidate being evaluated: name, stream base, sequence
    min_sequence_num,  \* smallest sequence read from the candidate's playlist
    deleting,          \* candidates for which this cycle issued remove_file
    srv,               \* streaming server: its stream, highest sequence written, window
    ev,                \* outcome of the last step (what the code logs or returns)
    due,               \* deadline of the interval's next tick (seconds)
    running,           \* number of spawned clean_task instances not yet finished
    io_failed,         \* an I/O operation of the cleaner has failed since run started
    tree               \* HLS_DIR beyond its regular files: subdirectories, nested files

vars == <<env, pc, files, plist, atime, now, current_time, ticks, visited, cur,
          min_sequence_num, deleting, srv, ev, due, running, io_failed, tree>>

----------------------------------------------------------------------------
(* Bounds of the model *)

MaxSeq == 3
MaxTicks == 2
\* Seconds a slow cycle takes (more than the tick period).
SlowSecs == 20
\* Segments in the directory whose clock and readers are followed.
MaxOrphans == 2

(* Constants of the program *)

AgeLimit == 1800
TickSecs == 15

----------------------------------------------------------------------------
(* Strings *)

TsExt == <<".", "t", "s">>
M3u8Ext == <<".", "m", "3", "u", "8">>
DigitChars == <<"0", "1", "2", "3", "4", "5", "6", "7", "8", "9">>
U32MaxDigits == <<"4", "2", "9", "4", "9", "6", "7", "2", "9", "5">>

IsDigit(c) == \E i \in 1..10 : DigitChars[i] = c
DigitVal(c) == (CHOOSE i \in 1..10 : DigitChars[i] = c) - 1

\* Index of the first / last occurrence of character c in s, 0 when absent.
FirstIdx(s, c) ==
    IF \E i \in 1..Len(s) : s[i] = c
    THEN CHOOSE i \in 1..Len(s) : s[i] = c /\ \A j \in 1..(i - 1) : s[j] # c
    ELSE 0
LastIdx(s, c) ==
    IF \E i \in 1..Len(s) : s[i] = c
    THEN CHOOSE i \in 1..Len(s) : s[i] = c /\ \A j \in (i + 1)..Len(s) : s[j] # c
    ELSE 0

EndsWith(s, suffix) ==
    /\ Len(s) >= Len(suffix)
    /\ SubSeq(s, Len(s) - Len(suffix) + 1, Len(s)) = suffix

\* globset "*.ts" on the entry's path.
ts_matcher(name) == EndsWith(name, TsExt)

\* Path::file_stem: the name up to its last '.', the whole name when it has no
\* '.' or only a leading one.
file_stem(name) ==
    LET i == LastIdx(name, ".")
    IN  IF i <= 1 THEN name ELSE SubSeq(name, 1, i - 1)

\* str::split_once('-'): split at the FIRST '-'.
split_once(s) ==
    LET i == FirstIdx(s, "-")
    IN  IF i = 0 THEN [ok |-> FALSE, base |-> <<>>, num |-> <<>>]
        ELSE [ok |-> TRUE, base |-> SubSeq(s, 1, i - 1), num |-> SubSeq(s, i + 1, Len(s))]

\* Fault: the segment name split at the first '-', like the playlist URIs.
rsplit_once_first(s) ==
    LET i == FirstIdx(s, "-")
    IN  IF i = 0 THEN [ok |-> FALSE, base |-> <<>>, num |-> <<>>]
        ELSE [ok |-> TRUE, base |-> SubSeq(s, 1, i - 1), num |-> SubSeq(s, i + 1, Len(s))]

\* str::rsplit_once('-'): split at the LAST '-'.
rsplit_once(s) ==
    LET i == LastIdx(s, "-")
    IN  IF i = 0 THEN [ok |-> FALSE, base |-> <<>>, num |-> <<>>]
        ELSE [ok |-> TRUE, base |-> SubSeq(s, 1, i - 1), num |-> SubSeq(s, i + 1, Len(s))]

RECURSIVE StripZeros(_)
StripZeros(s) ==
    IF Len(s) > 1 /\ s[1] = "0" THEN StripZeros(Tail(s)) ELSE s

RECURSIVE DecValue(_)
DecValue(s) ==
    IF s = <<>> THEN 0
    ELSE DecValue(SubSeq(s, 1, Len(s) - 1)) * 10 + DigitVal(s[Len(s)])

\* Digit strings of equal length compared as numbers.
RECURSIVE DigitsLeq(_, _)
DigitsLeq(s, t) ==
    IF s = <<>> THEN TRUE
    ELSE IF DigitVal(s[1]) # DigitVal(t[1]) THEN DigitVal(s[1]) < DigitVal(t[1])
    ELSE DigitsLeq(Tail(s), Tail(t))

\* The digit string denotes a value of at most u32::MAX.  The comparison is
\* on digits: the value itself is computed only when it fits.
FitsU32(digits) ==
    LET d == StripZeros(digits)
    IN  \/ Len(d) < Len(U32MaxDigits)
        \/ Len(d) = Len(U32MaxDigits) /\ DigitsLeq(d, U32MaxDigits)

\* str::parse::<u32>: an optional leading '+', then one or more decimal
\* digits, failing on an empty string, a non-digit or overflow.
parse_u32(s) ==
    LET digits == IF Len(s) > 0 /\ s[1] = "+" THEN Tail(s) ELSE s
    IN  IF /\ Len(digits) > 0
           /\ \A i \in 1..Len(digits) : IsDigit(digits[i])
           /\ FitsU32(digits)
        THEN [ok |-> TRUE, val |-> DecValue(digits)]
        ELSE [ok |-> FALSE, val |-> 0]

----------------------------------------------------------------------------
(* The directory: names the streaming server and other writers produce *)

RECURSIVE Decimal(_)
Decimal(n) ==
    IF n < 10 THEN <<DigitChars[n + 1]>>
    ELSE Decimal(n \div 10) \o <<DigitChars[(n % 10) + 1]>>

RECURSIVE PadZeros(_, _)
PadZeros(s, width) == IF Len(s) >= width THEN s ELSE PadZeros(<<"0">> \o s, width)

PlainBase == <<"a">>
HyphenBase == <<"c", "-", "0">>
Bases == {PlainBase, HyphenBase}

\* The hyphenated stream writes zero-padded sequence numbers.
SeqWidth(b) == IF b = HyphenBase THEN 2 ELSE 1

SegName(b, n) == b \o <<"-">> \o PadZeros(Decimal(n), SeqWidth(b)) \o TsExt

NoDashName == <<"n", ".", "t", "s">>
NonNumericName == <<"a", "-", "x", ".", "t", "s">>
OverflowName == <<"a", "-">> \o <<"4", "2", "9", "4", "9", "6", "7", "2", "9", "6">> \o TsExt
PlusName == <<"a", "-", "+", "1", ".", "t", "s">>
\* The odd names that occur as files in the directory.
OddNames == {NoDashName, NonNumericName}

TsNames == {SegName(b, n) : b \in Bases, n \in 1..MaxSeq} \cup OddNames

\* Other entries of HLS_DIR: a regular file that is no .ts file, a
\* subdirectory named like a segment, a plain subdirectory and a segment
\* file inside it.
TxtName == <<"a", "-", "1", ".", "t", "x", "t">>
DirTsName == <<"d", "-", "1", ".", "t", "s">>
SubDirName == <<"s">>
NestedName == SubDirName \o <<"/">> \o SegName(PlainBase, 1)
AllNames == TsNames \cup {TxtName, DirTsName, SubDirName, NestedName}
NoTree == [dirs |-> {}, nested |-> {}]

\* The playlist path of a stream: <stream_base_name>.m3u8 beside the segment.
playlist_path(base) == base \o M3u8Ext
PlaylistNames == {playlist_path(b) : b \in Bases}

\* A playlist file is absent, exists but cannot be read as text, holds
\* something that is no media playlist, or lists segment URIs.
Absent == [st |-> "absent", uris |-> <<>>]
Unreadable == [st |-> "unreadable", uris |-> <<>>]
Garbage == [st |-> "garbage", uris |-> <<>>]
Listing(uris) == [st |-> "list", uris |-> uris]

\* A playlist listing the segments lo..hi of stream b, in order.
Window(b, lo, hi) == [i \in 1..(hi - lo + 1) |-> SegName(b, lo + i - 1)]

PlaylistChoices(b) ==
    {Absent, Unreadable, Garbage, Listing(<<>>),
     Listing(<<SegName(b, MaxSeq), NoDashName>>)}
    \cup {Listing(Window(b, lo, hi)) : lo \in 1..MaxSeq, hi \in 1..MaxSeq}

\* The clock when run starts.
T0 == 2 * AgeLimit

\* Seconds since the last access at the first tick: 29 minutes, 30 minutes,
\* 31 minutes; a negative age is an access time ahead of the cleaner's clock.
OldAge == AgeLimit + 60
Ages == {AgeLimit - 60, AgeLimit, OldAge, 0 - 30}

EnvValues == {"unset", "off", "on"}

NoEntry == [name |-> <<>>, base |-> <<>>, seq |-> 0]

\* Positions of clean_task between its start and its return.
InCycle == {"iter", "read", "stat", "rm_unref", "rm_aged"}
Event(kind, why, name) == [kind |-> kind, why |-> why, name |-> name]

----------------------------------------------------------------------------
(* clean_task's pure steps *)

\* Fault: a sequence number that does not parse defaults to 0.
ParseSegmentName_default(name) ==
    LET sp == rsplit_once(file_stem(name))
        n  == parse_u32(sp.num)
    IN  IF sp.ok
        THEN [ok |-> TRUE, base |-> sp.base, seq |-> IF n.ok THEN n.val ELSE 0]
        ELSE [ok |-> FALSE, base |-> <<>>, seq |-> 0]

\* Lines 70-86: the candidate's stream base and sequence number.
ParseSegmentName(name) ==
    LET sp == rsplit_once(file_stem(name))
        n  == parse_u32(sp.num)
    IN  IF sp.ok /\ n.ok
        THEN [ok |-> TRUE, base |-> sp.base, seq |-> n.val]
        ELSE [ok |-> FALSE, base |-> <<>>, seq |-> 0]

Min(S) == CHOOSE m \in S : \A x \in S : m <= x

Max(S) == CHOOSE m \in S : \A x \in S : m >= x

\* Fault: the largest referenced sequence number is taken.
MinSequence_max(content) ==
    LET stems  == [i \in 1..Len(content.uris) |-> file_stem(content.uris[i])]
        splits == [i \in 1..Len(stems) |-> split_once(stems[i])]
        nums   == [i \in 1..Len(stems) |-> parse_u32(splits[i].num)]
    IN  IF /\ content.st = "list"
           /\ \A i \in 1..Len(stems) : splits[i].ok
           /\ \A i \in 1..Len(stems) : nums[i].ok
           /\ Len(stems) > 0
        THEN [ok |-> TRUE, min |-> Max({nums[i].val : i \in 1..Len(stems)})]
        ELSE [ok |-> FALSE, min |-> 0]

\* Fault: URIs that do not parse are skipped instead of failing the read.
MinSequence_skip_bad(content) ==
    LET stems  == [i \in 1..Len(content.uris) |-> file_stem(content.uris[i])]
        splits == [i \in 1..Len(stems) |-> split_once(stems[i])]
        nums   == [i \in 1..Len(stems) |-> parse_u32(splits[i].num)]
        good   == {i \in 1..Len(stems) : splits[i].ok /\ nums[i].ok}
    IN  IF content.st = "list" /\ good # {}
        THEN [ok |-> TRUE, min |-> Min({nums[i].val : i \in good})]
        ELSE [ok |-> FALSE, min |-> 0]

\* Fault: a playlist without segments yields the largest number as minimum
\* (2147483647 stands for u32::MAX).
MinSequence_empty_max(content) ==
    LET stems  == [i \in 1..Len(content.uris) |-> file_stem(content.uris[i])]
        splits == [i \in 1..Len(stems) |-> split_once(stems[i])]
        nums   == [i \in 1..Len(stems) |-> parse_u32(splits[i].num)]
    IN  IF /\ content.st = "list"
           /\ \A i \in 1..Len(stems) : splits[i].ok
           /\ \A i \in 1..Len(stems) : nums[i].ok
        THEN [ok |-> TRUE,
              min |-> IF Len(stems) = 0 THEN 2147483647
                      ELSE Min({nums[i].val : i \in 1..Len(stems)})]
        ELSE [ok |-> FALSE, min |-> 0]

\* Lines 97-133: the smallest sequence number the playlist references.
MinSequence(content) ==
    LET stems  == [i \in 1..Len(content.uris) |-> file_stem(content.uris[i])]
        splits == [i \in 1..Len(stems) |-> split_once(stems[i])]
        nums   == [i \in 1..Len(stems) |-> parse_u32(splits[i].num)]
    IN  IF /\ content.st = "list"
           /\ \A i \in 1..Len(stems) : splits[i].ok
           /\ \A i \in 1..Len(stems) : nums[i].ok
           /\ Len(stems) > 0
        THEN [ok |-> TRUE, min |-> Min({nums[i].val : i \in 1..Len(stems)})]
        ELSE [ok |-> FALSE, min |-> 0]

\* Fault: a playlist that cannot be used counts as missing.
PlaylistExists_usable(base) ==
    /\ playlist_path(base) \in DOMAIN plist
    /\ plist[playlist_path(base)].st = "list"

\* Line 92: playlist_path.exists().
PlaylistExists(base) ==
    /\ playlist_path(base) \in DOMAIN plist
    /\ plist[playlist_path(base)].st # "absent"

\* Fault: the comparison is not strict.
BelowMinimum_inclusive(seq, min) == seq <= min

\* Line 134.
BelowMinimum(seq, min) == seq < min

\* Fault: the age comparison is not strict.
OlderThanLimit_inclusive(ctime, accessed) ==
    /\ accessed <= ctime
    /\ ctime - accessed >= AgeLimit

\* Fault: an access time ahead of current_time counts as old.
OlderThanLimit_skew_is_old(ctime, accessed) ==
    \/ accessed > ctime
    \/ ctime - accessed > AgeLimit

\* Lines 147-148: duration_since fails when the access time is ahead of
\* current_time; otherwise the age is compared with 1800 seconds.
OlderThanLimit(ctime, accessed) ==
    /\ accessed <= ctime
    /\ ctime - accessed > AgeLimit

\* Fault: any value of HLS_CLEANUP activates the cleaner.
Activated_any_value(e) == e # "unset"

\* Line 40: the cleaner runs only when HLS_CLEANUP is "off".
Activated(e) == e = "off"

\* Fault: the error of a cycle is propagated out of run.
AfterTask_propagate(result) == IF result = "err" THEN "exited" ELSE "tick"

\* Lines 51-54: run awaits the spawned task, logs its error if it returned
\* one, and goes back to interval.tick() either way.
AfterTask(result) == "tick"

\* The later of two instants.
Later(t, u) == IF t >= u THEN t ELSE u

\* Depth of a path below HLS_DIR: 1 for a direct entry.
Depth(path) == 1 + Cardinality({i \in 1..Len(path) : path[i] = "/"})

\* Lines 62-63: min_depth(1).max_depth(1).
WithinDepth(path) == Depth(path) = 1

\* Line 66: e.file_type().is_file().
is_file(path) == path \in files \cup tree.nested

\* Fault: every regular file is a candidate.
filter_entry_any_file(path) == is_file(path)

\* Line 66: the predicate of filter_entry.
filter_entry(path) == ts_matcher(path) /\ is_file(path)

\* Lines 61-65: the entries the walk of HLS_DIR meets.
WalkEntries == {e \in files \cup tree.dirs \cup tree.nested : WithinDepth(e)}

----------------------------------------------------------------------------
(* Initial states *)

InitCleaner ==
    /\ pc = "start"
    /\ now = T0
    /\ current_time = T0
    /\ ticks = 0
    /\ visited = {}
    /\ cur = NoEntry
    /\ min_sequence_num = 0
    /\ deleting = {}
    /\ ev = Event("init", "-", <<>>)
    /\ due = T0
    /\ running = 0
    /\ io_failed = FALSE

Init ==
    /\ InitCleaner
    /\ env \in EnvValues
    /\ \E b \in Bases, segs \in SUBSET (1..MaxSeq), odd \in SUBSET OddNames, age \in Ages :
       \E pl \in PlaylistChoices(b) :
        /\ Cardinality(odd) <= 1
        /\ \A m, n \in segs : \A k \in m..n : k \in segs
        /\ pl # Absent => age = OldAge
        /\ files = {SegName(b, n) : n \in segs} \cup odd
        /\ plist = [p \in PlaylistNames |-> IF p = playlist_path(b) THEN pl ELSE Absent]
        /\ atime = [f \in AllNames |-> T0 - age]
        /\ srv = [base |-> b, last |-> 0, lo |-> 0, hi |-> 0]
        /\ tree = NoTree

----------------------------------------------------------------------------
(* run *)

\* Lines 35-47: the activation gate.
Launch ==
    /\ pc = "start"
    /\ pc' = IF Activated(env) THEN "tick" ELSE "exited"
    /\ ev' = Event(IF Activated(env) THEN "launched" ELSE "exit", "-", <<>>)
    /\ due' = IF Activated(env) THEN now ELSE due
    /\ UNCHANGED <<env, files, plist, atime, now, current_time, ticks, visited, cur,
                   min_sequence_num, deleting, srv, running, io_failed, tree>>

\* Fault: the task is spawned and not awaited, the next tick fires when due.
Tick_not_awaited ==
    /\ pc \in {"tick"} \cup InCycle
    /\ pc \in InCycle => now >= due
    /\ ticks < MaxTicks
    /\ ticks' = ticks + 1
    /\ now' = Later(now, due)
    /\ due' = now' + TickSecs
    /\ running' = running + 1
    /\ current_time' = now'
    /\ visited' = {}
    /\ deleting' = {}
    /\ cur' = NoEntry
    /\ min_sequence_num' = 0
    /\ pc' = "iter"
    /\ ev' = Event("tick", "-", <<>>)
    /\ UNCHANGED <<env, files, plist, atime, srv, io_failed, tree>>

\* Lines 46-51 and 59-60: run is at interval.tick(), no task running.  The
\* tick completes at its deadline (at once the first time), or at once when
\* the deadline has passed; the next deadline is one period after this tick
\* (MissedTickBehavior::Delay).  clean_task is spawned and captures the time.
Tick ==
    /\ pc = "tick"
    /\ ticks < MaxTicks
    /\ ticks' = ticks + 1
    /\ now' = Later(now, due)
    /\ due' = now' + TickSecs
    /\ running' = running + 1
    /\ current_time' = now'
    /\ visited' = {}
    /\ deleting' = {}
    /\ cur' = NoEntry
    /\ min_sequence_num' = 0
    /\ pc' = "iter"
    /\ ev' = Event("tick", "-", <<>>)
    /\ UNCHANGED <<env, files, plist, atime, srv, io_failed, tree>>

----------------------------------------------------------------------------
(* clean_task *)

\* Lines 61-92: the walk yields the next regular file matching *.ts, in no
\* particular order; its name is parsed and its playlist looked for.  A name
\* that does not parse makes clean_task return the error (the `?` on lines
\* 73-86), which run logs on line 52.
NextEntry ==
    /\ pc = "iter"
    /\ \E name \in WalkEntries \ visited :
        /\ filter_entry(name)
        /\ visited' = visited \cup {name}
        /\ \E p \in {ParseSegmentName(name)} :
               IF ~p.ok
               THEN /\ pc' = AfterTask("err")
                    /\ running' = running - 1
                    /\ cur' = NoEntry
                    /\ ev' = Event("name_err", "-", name)
               ELSE /\ pc' = IF PlaylistExists(p.base) THEN "read" ELSE "stat"
                    /\ running' = running
                    /\ cur' = [name |-> name, base |-> p.base, seq |-> p.seq]
                    /\ ev' = Event("picked", "-", name)
    /\ UNCHANGED <<env, files, plist, atime, now, current_time, ticks,
                   min_sequence_num, deleting, srv, due, io_failed, tree>>

\* Line 180: the walk is exhausted and clean_task returns Ok.
EndCycle ==
    /\ pc = "iter"
    /\ \A name \in WalkEntries \ visited : ~filter_entry(name)
    /\ pc' = AfterTask("ok")
    /\ running' = running - 1
    /\ cur' = NoEntry
    /\ ev' = Event("cycle_ok", "-", <<>>)
    /\ UNCHANGED <<env, files, plist, atime, now, current_time, ticks, visited,
                   min_sequence_num, deleting, srv, due, io_failed, tree>>

\* Lines 61-67: the walk yields a subdirectory (contents_first, after its
\* content, which max_depth(1) leaves unread); filter_entry rejects it and
\* tells the walk to skip the directory being read.  Whether that ends the
\* listing of HLS_DIR is walkdir's business: the walk either goes on (the
\* entry is passed over, as in NextEntry and EndCycle) or ends here, and
\* clean_task returns Ok.
WalkEndsAtDir ==
    /\ pc = "iter"
    /\ \E d \in tree.dirs \ visited :
        /\ WithinDepth(d)
        /\ ~filter_entry(d)
        /\ visited' = visited \cup {d}
        /\ ev' = Event("cycle_ok", "dir", d)
    /\ pc' = AfterTask("ok")
    /\ running' = running - 1
    /\ cur' = NoEntry
    /\ UNCHANGED <<env, files, plist, atime, now, current_time, ticks,
                   min_sequence_num, deleting, srv, due, io_failed, tree>>

\* Lines 95-135: read and parse the playlist, take the smallest referenced
\* sequence number and compare.  The read itself may fail (io_ok = FALSE,
\* line 96) and so may the parsing (lines 98-133); every failure makes
\* clean_task return the error, which run logs on line 52.
ReadPlaylist ==
    /\ pc = "read"
    /\ \E io_ok \in BOOLEAN :
        LET content == plist[playlist_path(cur.base)]
            m == MinSequence(content)
        IN  IF ~io_ok \/ content.st \in {"absent", "unreadable"} \/ ~m.ok
            THEN /\ pc' = AfterTask("err")
                 /\ running' = running - 1
                 /\ io_failed' = (io_failed \/ ~io_ok)
                 /\ cur' = NoEntry
                 /\ min_sequence_num' = 0
                 /\ ev' = Event(IF ~io_ok \/ content.st \in {"absent", "unreadable"}
                                THEN "playlist_unreadable" ELSE "playlist_err",
                                "playlist", cur.name)
            ELSE /\ min_sequence_num' = m.min
                 /\ running' = running
                 /\ io_failed' = io_failed
                 /\ IF BelowMinimum(cur.seq, m.min)
                    THEN /\ pc' = "rm_unref"
                         /\ cur' = cur
                         /\ ev' = Event("deleting", "playlist", cur.name)
                    ELSE /\ pc' = "iter"
                         /\ cur' = NoEntry
                         /\ ev' = Event("kept", "playlist", cur.name)
    /\ UNCHANGED <<env, files, plist, atime, now, current_time, ticks, visited,
                   deleting, srv, due, tree>>

\* Lines 136-138: remove_file; a failure is logged and the walk goes on.
RemoveUnreferenced ==
    /\ pc = "rm_unref"
    /\ deleting' = deleting \cup {cur.name}
    /\ \E rm_ok \in BOOLEAN :
        IF rm_ok /\ is_file(cur.name)
        THEN /\ files' = files \ {cur.name}
             /\ tree' = [tree EXCEPT !.nested = @ \ {cur.name}]
             /\ io_failed' = io_failed
             /\ ev' = Event("removed", "playlist", cur.name)
        ELSE /\ files' = files
             /\ tree' = tree
             /\ io_failed' = TRUE
             /\ ev' = Event("remove_failed", "playlist", cur.name)
    /\ pc' = "iter"
    /\ cur' = NoEntry
    /\ UNCHANGED <<env, plist, atime, now, current_time, ticks, visited,
                   min_sequence_num, srv, due, running>>

\* Lines 144-176 up to the decision: metadata, access time, age.
StatEntry ==
    /\ pc = "stat"
    /\ \E meta_ok \in BOOLEAN, atime_ok \in BOOLEAN :
        IF ~meta_ok \/ ~is_file(cur.name)
        THEN /\ pc' = "iter"
             /\ cur' = NoEntry
             /\ io_failed' = TRUE
             /\ ev' = Event("meta_err", "age", cur.name)
        ELSE IF ~atime_ok
        THEN /\ pc' = "iter"
             /\ cur' = NoEntry
             /\ io_failed' = TRUE
             /\ ev' = Event("atime_err", "age", cur.name)
        ELSE IF OlderThanLimit(current_time, atime[cur.name])
        THEN /\ pc' = "rm_aged"
             /\ cur' = cur
             /\ io_failed' = io_failed
             /\ ev' = Event("deleting", "age", cur.name)
        ELSE /\ pc' = "iter"
             /\ cur' = NoEntry
             /\ io_failed' = io_failed
             /\ ev' = Event("kept", "age", cur.name)
    /\ UNCHANGED <<env, files, plist, atime, now, current_time, ticks, visited,
                   min_sequence_num, deleting, srv, due, running, tree>>

\* Fault: a failed remove_file is propagated and ends the cycle.
RemoveAged_propagate ==
    /\ pc = "rm_aged"
    /\ deleting' = deleting \cup {cur.name}
    /\ \E rm_ok \in BOOLEAN :
        IF rm_ok /\ is_file(cur.name)
        THEN /\ files' = files \ {cur.name}
             /\ tree' = [tree EXCEPT !.nested = @ \ {cur.name}]
             /\ io_failed' = io_failed
             /\ ev' = Event("removed", "age", cur.name)
             /\ pc' = "iter"
             /\ running' = running
        ELSE /\ files' = files
             /\ tree' = tree
             /\ io_failed' = TRUE
             /\ ev' = Event("remove_failed", "age", cur.name)
             /\ pc' = AfterTask("err")
             /\ running' = running - 1
    /\ cur' = NoEntry
    /\ UNCHANGED <<env, plist, atime, now, current_time, ticks, visited,
                   min_sequence_num, srv, due>>

\* Lines 153-159: remove_file; a failure is logged and the walk goes on.
RemoveAged ==
    /\ pc = "rm_aged"
    /\ deleting' = deleting \cup {cur.name}
    /\ \E rm_ok \in BOOLEAN :
        IF rm_ok /\ is_file(cur.name)
        THEN /\ files' = files \ {cur.name}
             /\ tree' = [tree EXCEPT !.nested = @ \ {cur.name}]
             /\ io_failed' = io_failed
             /\ ev' = Event("removed", "age", cur.name)
        ELSE /\ files' = files
             /\ tree' = tree
             /\ io_failed' = TRUE
             /\ ev' = Event("remove_failed", "age", cur.name)
    /\ pc' = "iter"
    /\ cur' = NoEntry
    /\ UNCHANGED <<env, plist, atime, now, current_time, ticks, visited,
                   min_sequence_num, srv, due, running>>

----------------------------------------------------------------------------
(* The streaming server, writing into HLS_DIR while the cleaner runs *)

\* The cleaner is activated and about to start a cycle (the last one the
\* model follows); the directory holds the stream the server is writing.
InitServer ==
    /\ env = "off"
    /\ pc = "tick"
    /\ now = T0
    /\ current_time = T0
    /\ ticks = MaxTicks - 1
    /\ visited = {}
    /\ cur = NoEntry
    /\ min_sequence_num = 0
    /\ deleting = {}
    /\ ev = Event("launched", "-", <<>>)
    /\ due = T0 + TickSecs
    /\ running = 0
    /\ io_failed = FALSE
    /\ tree = NoTree
    /\ \E b \in Bases, last \in 1..MaxSeq, lo \in 1..MaxSeq, hi \in 1..MaxSeq,
          present \in BOOLEAN, age \in {AgeLimit - 60, OldAge} :
        /\ lo <= hi /\ hi <= last
        /\ present => age = OldAge
        /\ files = {SegName(b, n) : n \in 1..last}
        /\ plist = [p \in PlaylistNames |->
                      IF p = playlist_path(b) /\ present
                      THEN Listing(Window(b, lo, hi)) ELSE Absent]
        /\ atime = [f \in AllNames |-> T0 - age]
        /\ srv = [base |-> b, last |-> last, lo |-> lo, hi |-> hi]

\* The server writes the next segment of its stream.
AddSegment ==
    /\ srv.last < MaxSeq
    /\ files' = files \cup {SegName(srv.base, srv.last + 1)}
    /\ atime' = [atime EXCEPT ![SegName(srv.base, srv.last + 1)] = now]
    /\ srv' = [srv EXCEPT !.last = srv.last + 1]
    /\ ev' = Event("server", "-", <<>>)
    /\ UNCHANGED <<env, pc, plist, now, current_time, ticks, visited, cur,
                   min_sequence_num, deleting, due, running, io_failed, tree>>

\* The server rewrites its playlist: the window of referenced sequence
\* numbers only moves up.
RewritePlaylist ==
    /\ plist[playlist_path(srv.base)].st = "list"
    /\ \E lo \in srv.lo..MaxSeq, hi \in srv.hi..srv.last :
        /\ lo <= hi
        /\ <<lo, hi>> # <<srv.lo, srv.hi>>
        /\ plist' = [plist EXCEPT ![playlist_path(srv.base)] =
                                        Listing(Window(srv.base, lo, hi))]
        /\ srv' = [srv EXCEPT !.lo = lo, !.hi = hi]
    /\ ev' = Event("server", "-", <<>>)
    /\ UNCHANGED <<env, pc, files, atime, now, current_time, ticks, visited, cur,
                   min_sequence_num, deleting, due, running, io_failed, tree>>

----------------------------------------------------------------------------
(* Time and readers, while a cycle runs *)

\* The cleaner is about to start on a directory of segments without
\* playlist, each last accessed at its own time.
InitClock ==
    /\ InitCleaner
    /\ env = "off"
    /\ \E last \in 1..MaxOrphans, age \in {OldAge, 0 - 30} :
        /\ files = {SegName(PlainBase, n) : n \in 1..last}
        /\ atime = [f \in AllNames |-> T0 - age]
    /\ plist = [p \in PlaylistNames |-> Absent]
    /\ srv = [base |-> PlainBase, last |-> 0, lo |-> 0, hi |-> 0]
    /\ tree = NoTree

\* The cycle in progress is slow: SlowSecs pass before its next step.
Elapse ==
    /\ pc \in InCycle
    /\ now = current_time
    /\ now' = now + SlowSecs
    /\ ev' = Event("clock", "-", <<>>)
    /\ UNCHANGED <<env, pc, files, plist, atime, current_time, ticks, visited, cur,
                   min_sequence_num, deleting, srv, due, running, io_failed, tree>>

\* A client reads a segment while the cycle runs, before, during or after
\* the segment's evaluation: its access time becomes the present.
Access ==
    /\ pc \in InCycle
    /\ now > current_time
    /\ \E name \in files :
        /\ atime[name] < now
        /\ atime' = [atime EXCEPT ![name] = now]
        /\ ev' = Event("client", "-", name)
    /\ UNCHANGED <<env, pc, files, plist, now, current_time, ticks, visited, cur,
                   min_sequence_num, deleting, srv, due, running, io_failed, tree>>

----------------------------------------------------------------------------
(* A directory that holds more than segments and playlists *)

\* The cleaner is activated and about to start a cycle on a directory with
\* segments of one stream, possibly a file of another extension, a
\* subdirectory named like a segment, and a subdirectory holding a segment.
InitDir ==
    /\ env = "off"
    /\ pc = "tick"
    /\ now = T0
    /\ current_time = T0
    /\ ticks = MaxTicks - 1
    /\ visited = {}
    /\ cur = NoEntry
    /\ min_sequence_num = 0
    /\ deleting = {}
    /\ ev = Event("launched", "-", <<>>)
    /\ due = T0 + TickSecs
    /\ running = 0
    /\ io_failed = FALSE
    /\ srv = [base |-> PlainBase, last |-> 0, lo |-> 0, hi |-> 0]
    /\ \E segs \in SUBSET (1..MaxSeq), other \in SUBSET {TxtName},
          dirs \in SUBSET {DirTsName, SubDirName}, nested \in SUBSET {NestedName},
          pl \in {Absent, Listing(Window(PlainBase, MaxSeq, MaxSeq))},
          age \in {AgeLimit - 60, OldAge} :
        /\ \A m, n \in segs : \A k \in m..n : k \in segs
        /\ nested # {} => SubDirName \in dirs
        /\ files = {SegName(PlainBase, n) : n \in segs} \cup other
        /\ tree = [dirs |-> dirs, nested |-> nested]
        /\ plist = [p \in PlaylistNames |-> IF p = playlist_path(PlainBase) THEN pl ELSE Absent]
        /\ atime = [f \in AllNames |-> T0 - age]

----------------------------------------------------------------------------
(* Directories on which cycles go wrong *)

\* An old segment of one stream, possibly beside a file with an odd name;
\* the playlist is absent, no media playlist, or references the last
\* sequence.
InitLive ==
    /\ InitCleaner
    /\ env = "off"
    /\ \E odd \in SUBSET OddNames,
          pl \in {Absent, Garbage, Listing(Window(PlainBase, MaxSeq, MaxSeq))} :
        /\ Cardinality(odd) <= 1
        /\ files = {SegName(PlainBase, 1)} \cup odd
        /\ plist = [p \in PlaylistNames |-> IF p = playlist_path(PlainBase) THEN pl ELSE Absent]
    /\ atime = [f \in AllNames |-> T0 - OldAge]
    /\ srv = [base |-> PlainBase, last |-> 0, lo |-> 0, hi |-> 0]
    /\ tree = NoTree

----------------------------------------------------------------------------
Next ==
    \/ Launch
    \/ Tick
    \/ NextEntry
    \/ EndCycle
    \/ ReadPlaylist
    \/ RemoveUnreferenced
    \/ StatEntry
    \/ RemoveAged

Spec == Init /\ [][Next]_vars

NextServer ==
    \/ Tick
    \/ NextEntry
    \/ EndCycle
    \/ ReadPlaylist
    \/ RemoveUnreferenced
    \/ StatEntry
    \/ RemoveAged
    \/ AddSegment
    \/ RewritePlaylist

SpecServer == InitServer /\ [][NextServer]_vars

NextClock ==
    \/ Launch
    \/ Tick
    \/ NextEntry
    \/ EndCycle
    \/ StatEntry
    \/ RemoveAged
    \/ Elapse
    \/ Access

SpecClock == InitClock /\ [][NextClock]_vars

NextDir ==
    \/ Tick
    \/ NextEntry
    \/ EndCycle
    \/ WalkEndsAtDir
    \/ ReadPlaylist
    \/ RemoveUnreferenced
    \/ StatEntry
    \/ RemoveAged

SpecDir == InitDir /\ [][NextDir]_vars

\* The runtime keeps running the timer and the spawned task: a step that
\* can be taken is eventually taken.
SpecLive == InitLive /\ [][Next]_vars /\ WF_vars(Next)

----------------------------------------------------------------------------
(* Vocabulary of the properties, stated on names rather than through the  *)
(* cleaner's own parsing                                                   *)

\* The sequence numbers stream b's playlist references.
RefSeqs(b) ==
    LET uris == plist[playlist_path(b)].uris
    IN  {n \in 1..MaxSeq : \E i \in 1..Len(uris) : uris[i] = SegName(b, n)}

\* The playlist of stream b exists and the cleaner's reader accepts it.
PlaylistParses(b) ==
    /\ plist[playlist_path(b)].st # "absent"
    /\ MinSequence(plist[playlist_path(b)]).ok

\* name is <b>-<suffix>.ts with no '-' in the suffix.
BelongsTo(name, b) ==
    /\ EndsWith(name, TsExt)
    /\ Len(name) > Len(b) + 1 + Len(TsExt)
    /\ SubSeq(name, 1, Len(b) + 1) = b \o <<"-">>
    /\ \A i \in (Len(b) + 2)..Len(name) : name[i] # "-"

\* The suffix after the last '-' of the stem is a non-negative decimal
\* integer (an explicit '+' sign allowed) that fits u32.
WellFormedName(name) ==
    /\ EndsWith(name, TsExt)
    /\ \E i \in 1..(Len(name) - Len(TsExt)) :
        /\ name[i] = "-"
        /\ \A j \in (i + 1)..(Len(name) - Len(TsExt)) : name[j] # "-"
        /\ LET suffix == SubSeq(name, i + 1, Len(name) - Len(TsExt))
               digits == IF Len(suffix) > 0 /\ suffix[1] = "+" THEN Tail(suffix) ELSE suffix
           IN  /\ Len(digits) > 0
               /\ \A j \in 1..Len(digits) : IsDigit(digits[j])
               /\ FitsU32(digits)

RemovalIssued == ev.kind \in {"deleting", "removed", "remove_failed"}

\* The names the last step or this cycle's removals are about.
Concerned == deleting \cup ({ev.name} \ {<<>>})

----------------------------------------------------------------------------
\* C1: for a segment <base>-<n>.ts whose playlist exists and parses to a
\* non-empty set S of referenced sequence numbers, the cycle's verdict is
\* removal if and only if n < min(S): a segment at or above min(S), also one
\* above max(S), is kept, and a cycle that ran to its end issued remove_file
\* for exactly the listed segments below min(S).
C1_PlaylistVerdict ==
    \A b \in Bases :
        (plist[playlist_path(b)].st = "list" /\ (ev.name # <<>> \/ ev.kind = "cycle_ok")) =>
            LET S == RefSeqs(b)
            IN  (PlaylistParses(b) /\ S # {}) =>
                  LET smallest == Min(S)
                  IN  /\ MinSequence(plist[playlist_path(b)]).min = smallest
                      /\ \A n \in 1..MaxSeq :
                          LET name == SegName(b, n)
                          IN  /\ (ev.name = name /\ ev.kind = "kept") =>
                                    (ev.why = "playlist" /\ n >= smallest /\ name \in files)
                              /\ (ev.name = name /\ RemovalIssued) =>
                                    (ev.why = "playlist" /\ n < smallest)
                              /\ name \in deleting => n < smallest
                              /\ (ev.kind = "cycle_ok" /\ name \in files) => name \in visited
                              /\ (ev.kind = "cycle_ok" /\ name \in visited) =>
                                    /\ name \in deleting <=> n < smallest
                                    /\ n >= smallest => name \in files

\* A first cycle over a-1, a-2, a-3 with a.m3u8 referencing {2} has ended:
\* a-1 is gone, a-2 (the minimum) and a-3 (above the maximum) remain.
C1_Witness ==
    /\ ev.kind = "cycle_ok"
    /\ ticks = 1
    /\ RefSeqs(PlainBase) = {2}
    /\ visited = {SegName(PlainBase, 1), SegName(PlainBase, 2), SegName(PlainBase, 3)}
    /\ files = {SegName(PlainBase, 2), SegName(PlainBase, 3)}

----------------------------------------------------------------------------
\* C2: with the streaming server adding segments and moving the playlist
\* window up while the cleaner runs, no segment is removed whose sequence
\* number its stream's playlist references at the moment of the removal.
C2_NoOverDeletion ==
    ev.kind = "removed" =>
        \A b \in Bases, n \in 1..MaxSeq :
            ev.name = SegName(b, n) => n \notin RefSeqs(b)

\* A removal issued after the server rewrote the playlist that had been read.
C2_Witness ==
    /\ ev.kind = "removed"
    /\ ev.why = "playlist"
    /\ RefSeqs(srv.base) # {}
    /\ min_sequence_num < Min(RefSeqs(srv.base))

----------------------------------------------------------------------------
\* C3: for a segment without a playlist whose access time was read, the
\* verdict is removal if and only if current_time - last access > 1800 s,
\* strictly: exactly 1800 s is kept.
C3_AgeVerdict ==
    \A name \in Concerned :
        /\ (ev.name = name /\ ev.why = "age" /\ ev.kind = "kept") =>
              (current_time - atime[name] <= AgeLimit /\ name \in files)
        /\ (ev.name = name /\ ev.why = "age" /\ RemovalIssued) =>
              current_time - atime[name] > AgeLimit
        /\ (name \in deleting /\ ~PlaylistExists(ParseSegmentName(name).base)) =>
              current_time - atime[name] > AgeLimit

\* A segment last accessed exactly 1800 s before the cycle began was kept.
C3_Witness ==
    /\ ev.kind = "kept"
    /\ ev.why = "age"
    /\ current_time - atime[ev.name] = AgeLimit

----------------------------------------------------------------------------
\* The playlist of stream b exists and cannot be read, is not a media
\* playlist, or lists a URI whose sequence number the reader cannot parse.
PlaylistMalformed(b) ==
    LET content == plist[playlist_path(b)]
    IN  \/ content.st \in {"unreadable", "garbage"}
        \/ /\ content.st = "list"
           /\ \E i \in 1..Len(content.uris) :
                LET sp == split_once(file_stem(content.uris[i]))
                IN  ~sp.ok \/ ~parse_u32(sp.num).ok

\* C4: when a segment's playlist exists but cannot be read, is not a media
\* playlist or lists a URI that fails sequence parsing, the evaluation ends
\* in the error without removing the segment, and no segment of a stream
\* whose playlist is in that condition is removed in the cycle, whatever
\* its sequence number and age.
C4_PlaylistErrorKeeps ==
    /\ ev.kind \in {"playlist_unreadable", "playlist_err"} =>
          (ev.name \in files /\ ev.name \notin deleting /\ pc = "tick")
    /\ \A b \in Bases, name \in Concerned :
          (plist[playlist_path(b)].st # "absent" /\ BelongsTo(name, b)
             /\ PlaylistMalformed(b)) =>
              /\ name \notin deleting
              /\ ev.name = name => ev.kind \in {"picked", "name_err", "playlist_unreadable",
                                                "playlist_err"}

\* The playlist lists a-3.ts and a URI without '-': the evaluation of the
\* old segment a-1.ts ended in the playlist error and a-1.ts is in place.
C4_Witness ==
    /\ ev.kind = "playlist_err"
    /\ ev.name = SegName(PlainBase, 1)
    /\ Len(plist[playlist_path(PlainBase)].uris) = 2
    /\ current_time - atime[ev.name] > AgeLimit
    /\ ev.name \in files

----------------------------------------------------------------------------
\* C5: a playlist that exists and lists no segment is an error: no segment
\* of the stream is removed in the cycle.
C5_EmptyPlaylistKeeps ==
    \A b \in Bases, name \in Concerned :
        (plist[playlist_path(b)] = Listing(<<>>) /\ BelongsTo(name, b)) =>
            /\ name \notin deleting
            /\ (ev.name = name /\ WellFormedName(name)) =>
                  ev.kind \in {"picked", "playlist_unreadable", "playlist_err"}
            /\ (ev.name = name /\ ev.kind # "picked") => (pc = "tick" /\ name \in files)

\* The evaluation of a-1.ts against an empty a.m3u8 ended in the error.
C5_Witness ==
    /\ plist[playlist_path(PlainBase)] = Listing(<<>>)
    /\ ev.kind = "playlist_err"
    /\ ev.name = SegName(PlainBase, 1)
    /\ SegName(PlainBase, 1) \in files

----------------------------------------------------------------------------
\* C6: a .ts file whose stem has no '-' or whose suffix after the last '-'
\* is not a non-negative integer fitting u32 is never removed: its
\* evaluation ends in an error that is reported, and remove_file is never
\* issued for it.  (a-4294967296.ts overflows u32 and is rejected; a-+1.ts
\* is the integer 1 written with its sign and is accepted.)
C6_UnparseableNeverRemoved ==
    /\ \A name \in deleting : WellFormedName(name)
    /\ RemovalIssued => WellFormedName(ev.name)
    /\ ev.kind = "init" =>
          /\ ~WellFormedName(OverflowName) /\ ~ParseSegmentName(OverflowName).ok
          /\ WellFormedName(PlusName) /\ ParseSegmentName(PlusName).ok
    /\ (ev.name # <<>> /\ ~WellFormedName(ev.name)) =>
          (ev.kind = "name_err" /\ ev.name \in files /\ pc = "tick")

\* In the second cycle the non-numeric name is reported again, still there.
C6_Witness ==
    /\ ev.kind = "name_err"
    /\ ev.name = NonNumericName
    /\ ticks = 2
    /\ NonNumericName \in files

----------------------------------------------------------------------------
\* C7: an error on one segment's name or on one stream's playlist affects
\* only that segment: when the cycle is over, every candidate of the
\* directory listing has been evaluated.
C7_ErrorLocality ==
    (pc = "tick" /\ ticks >= 1) =>
        \A name \in files : ts_matcher(name) => name \in visited

----------------------------------------------------------------------------
CamExample ==
    <<"c", "a", "m", "-", "0", "1", "-", "0", "0", "0", "1", "2", "3", ".", "t", "s">>
NoDashExample == <<"n", "o", "d", "a", "s", "h", ".", "t", "s">>
AbcExample == <<"s", "t", "r", "e", "a", "m", "-", "a", "b", "c", ".", "t", "s">>

\* C8: a segment name is split at the LAST '-' of its stem: cam-01-000123.ts
\* gives base cam-01 and sequence 123, nodash.ts and stream-abc.ts are parse
\* errors; in the walk, <b>-<n>.ts is evaluated as sequence n of stream b
\* against b.m3u8, for a hyphenated b with zero-padded numbers too.
C8_SplitAtLastDash ==
    /\ ev.kind = "init" =>
          /\ ParseSegmentName(CamExample) =
                [ok |-> TRUE, base |-> <<"c", "a", "m", "-", "0", "1">>, seq |-> 123]
          /\ ~ParseSegmentName(NoDashExample).ok
          /\ ~ParseSegmentName(AbcExample).ok
    /\ \A b \in Bases, n \in 1..MaxSeq :
          (ev.kind \in {"picked", "name_err"} /\ ev.name = SegName(b, n)) =>
              /\ ev.kind # "name_err"
              /\ ev.kind = "picked" =>
                    /\ cur = [name |-> SegName(b, n), base |-> b, seq |-> n]
                    /\ pc = IF plist[playlist_path(b)].st # "absent" THEN "read" ELSE "stat"
    /\ ev.name \in {NoDashName, NonNumericName} => ev.kind = "name_err"

\* c-0-02.ts was picked as sequence 2 of stream c-0, whose playlist exists.
C8_Witness ==
    /\ ev.kind = "picked"
    /\ ev.name = SegName(HyphenBase, 2)
    /\ cur.base = HyphenBase
    /\ cur.seq = 2
    /\ pc = "read"

----------------------------------------------------------------------------
\* Every URI of stream b's playlist is a segment name of stream b.
WellListed(b) ==
    LET content == plist[playlist_path(b)]
    IN  /\ content.st = "list"
        /\ Len(content.uris) > 0
        /\ \A i \in 1..Len(content.uris) :
              \E n \in 1..MaxSeq : content.uris[i] = SegName(b, n)

\* C9: playlist URIs are split at the last '-' like segment names: for any
\* stream, hyphenated ones included, a playlist listing the stream's own
\* segments is read without a parse error, and a listed segment is removed
\* exactly when its sequence is below the smallest listed one.
C9_PlaylistUriLastDash ==
    \A b \in Bases, n \in 1..MaxSeq :
        (ev.why = "playlist" /\ ev.name = SegName(b, n) /\ WellListed(b)) =>
            /\ ev.kind # "playlist_err"
            /\ ev.kind = "deleting" => n < Min(RefSeqs(b))
            /\ ev.kind = "kept" => n >= Min(RefSeqs(b))

----------------------------------------------------------------------------
\* C10: no cycle runs and no file is removed unless HLS_CLEANUP is set and
\* is "off"; unset or with any other value, run returns without a tick.
C10_ActivationGate ==
    /\ (ticks > 0 \/ pc \notin {"start", "exited"} \/ RemovalIssued) => env = "off"
    /\ env # "off" =>
          /\ pc \in {"start", "exited"}
          /\ ev.kind \in {"init", "exit"}
          /\ visited = {} /\ deleting = {}
    /\ env = "off" => pc # "exited"

\* HLS_CLEANUP has another value: run has returned, an old orphan untouched.
C10_Witness ==
    /\ env = "on"
    /\ pc = "exited"
    /\ ticks = 0
    /\ \E name \in files : now - atime[name] > AgeLimit

----------------------------------------------------------------------------
\* C11: ticks never overlap: at every moment at most one clean_task is in
\* progress, a tick fires only when none is, never before its deadline, and
\* a cycle still running at the deadline delays the tick to its end; the
\* following deadline is one period after the tick that fired.
C11_TicksNeverOverlap ==
    /\ [](running <= 1 /\ (running = 1 <=> pc \in InCycle))
    /\ [][ticks' # ticks =>
            (running = 0 /\ running' = 1 /\ now' >= due /\ due' = now' + TickSecs)]_vars

\* The first cycle took SlowSecs, past the deadline: the second tick fired
\* when it ended, and one cycle is in progress.
C11_Witness ==
    /\ ev.kind = "tick"
    /\ ticks = 2
    /\ now = T0 + SlowSecs
    /\ now > T0 + TickSecs
    /\ running = 1

----------------------------------------------------------------------------
\* What a cycle reports when something went wrong: a name or playlist error
\* ends the cycle, a metadata, access-time or removal error is logged in it.
ErrorKinds ==
    {"name_err", "playlist_unreadable", "playlist_err", "meta_err", "atime_err",
     "remove_failed"}

\* C12: once activated, run never exits, whatever errors its cycles end
\* with; after an error in cycle k (parse, read, metadata or delete) the
\* next tick fires and cycle k+1 starts.
C12_LoopSurvivesErrors ==
    /\ []((env = "off" /\ pc # "start") => pc # "exited")
    /\ \A k \in 1..(MaxTicks - 1) :
          (ticks = k /\ ev.kind \in ErrorKinds) ~> (ticks = k + 1 /\ ev.kind = "tick")

\* The directory holds only n.ts, on which every cycle fails: the second
\* cycle has started.
C12_Witness ==
    /\ files = {NoDashName}
    /\ ticks = 2
    /\ ev.kind = "tick"
    /\ pc = "iter"

----------------------------------------------------------------------------
\* C13: a failed removal, or a failure to read a segment's metadata or
\* access time, leaves the segment in place, is logged, and does not stop
\* the cycle: clean_task goes on with the walk, and a cycle that met no
\* other error ends with every candidate evaluated.
C13_LoggedFailureContinues ==
    /\ ev.kind \in {"remove_failed", "meta_err", "atime_err"} =>
          /\ ev.name \in files
          /\ ev.name \in visited
          /\ pc = "iter"
          /\ running = 1
          /\ cur = NoEntry
    /\ (pc = "tick" /\ ticks >= 1
          /\ ev.kind \notin {"name_err", "playlist_unreadable", "playlist_err"}) =>
          \A name \in files : ts_matcher(name) => name \in visited

\* After the removal of one old segment failed, the same cycle went on and
\* removed another.
C13_Witness ==
    /\ ev.kind = "removed"
    /\ ev.why = "age"
    /\ \E name \in (deleting \cap files) \ {ev.name} : name \in visited

----------------------------------------------------------------------------
\* C14: the two criteria are exclusive: the age of a segment is looked at
\* only when its playlist file does not exist.  A segment whose playlist
\* exists is removed only for a sequence below the smallest referenced one:
\* at or above it, or with a playlist that cannot be read, it is kept
\* however long ago it was last accessed.
C14_CriteriaExclusive ==
    \A b \in Bases, name \in Concerned :
        (BelongsTo(name, b) /\ plist[playlist_path(b)].st # "absent") =>
            /\ ev.name = name => ev.why # "age"
            /\ name \in deleting =>
                  /\ PlaylistParses(b)
                  /\ RefSeqs(b) # {}
                  /\ \A n \in 1..MaxSeq : name = SegName(b, n) => n < Min(RefSeqs(b))

\* A segment at the smallest referenced sequence, last accessed more than
\* 30 minutes ago, was kept.
C14_Witness ==
    /\ ev.kind = "kept"
    /\ ev.why = "playlist"
    /\ current_time - atime[ev.name] > AgeLimit
    /\ ev.name \in files
    /\ cur = NoEntry

----------------------------------------------------------------------------
\* The segment <b>-<n>.ts has been eligible for deletion since the first
\* cycle: its playlist is readable with a smallest referenced sequence
\* above n, or it has no playlist and was last accessed more than 30
\* minutes before the first tick.
Eligible(b, n) ==
    \/ /\ PlaylistParses(b)
       /\ RefSeqs(b) # {}
       /\ n < Min(RefSeqs(b))
    \/ /\ plist[playlist_path(b)].st = "absent"
       /\ T0 - atime[SegName(b, n)] > AgeLimit

\* C15: a segment that stays eligible for deletion is eventually removed,
\* whatever other files the directory holds: when every I/O operation has
\* succeeded and all MaxTicks cycles are over, no segment that was eligible
\* throughout is left.
C15_EventualReclamation ==
    (pc = "tick" /\ ticks = MaxTicks /\ ~io_failed) =>
        \A b \in Bases, n \in 1..MaxSeq :
            SegName(b, n) \in files => ~Eligible(b, n)

----------------------------------------------------------------------------
\* C16: a cycle removes nothing but regular files matching *.ts directly in
\* HLS_DIR, and each removal is of the candidate being evaluated: no step
\* changes a playlist, a file of another extension, a subdirectory or a
\* file inside a subdirectory, and the only file a step takes away is the
\* .ts candidate at hand.
C16_Frame ==
    [][/\ plist' = plist
       /\ tree' = tree
       /\ files' \subseteq files
       /\ \A name \in files \ files' :
            /\ ts_matcher(name)
            /\ WithinDepth(name)
            /\ name = cur.name
            /\ name \in visited
            /\ pc \in {"rm_unref", "rm_aged"}]_vars

\* A cycle has ended on a directory with a.m3u8, a-1.txt, the directories
\* d-1.ts and s and the file s/a-1.ts, all old: a segment was removed, the
\* other entries are there.
C16_Witness ==
    /\ ev.kind = "cycle_ok"
    /\ ev.why = "-"
    /\ deleting \ files # {}
    /\ TxtName \in files
    /\ tree = [dirs |-> {DirTsName, SubDirName}, nested |-> {NestedName}]
    /\ \A f \in files : current_time - atime[f] > AgeLimit

----------------------------------------------------------------------------
\* C17: a segment without playlist whose last access, when the cycle
\* evaluates it, is later than the current_time the cycle captured at its
\* start (a clock ahead, or an access while the cycle runs) is kept: the
\* evaluation issues no remove_file, the segment stays, and the cycle
\* continues with the next candidate.
C17_ClockSkewKeeps ==
    [][(pc = "stat" /\ ev'.why = "age" /\ atime[cur.name] > current_time) =>
          /\ ev'.name = cur.name
          /\ ev'.kind \in {"kept", "meta_err", "atime_err"}
          /\ pc' = "iter"
          /\ running' = 1
          /\ files' = files
          /\ deleting' = deleting
          /\ cur.name \in files]_vars

\* An old segment was read by a client after the cycle had started: its
\* evaluation kept it, and the walk has another candidate to go.
C17_Witness ==
    /\ ev.kind = "kept"
    /\ ev.why = "age"
    /\ atime[ev.name] = now
    /\ atime[ev.name] > current_time
    /\ pc = "iter"
    /\ files \ visited # {}

====
